---- MODULE Spec2Model ----
(***************************************************************************)
(* A model of the Myers linear-space diff of src/src/diff.rs: the          *)
(* middle-snake search over the two shared frontier arrays, the            *)
(* divide-and-conquer driver, the edit-script compressor, the line         *)
(* classifier and the hunk assembler.                                      *)
(*                                                                         *)
(* Sequences are TLA+ sequences (1-based); every index, offset and range   *)
(* bound of the program is kept 0-based as in the source, so the element   *)
(* at program index i of a backing sequence s is s[i + 1].                 *)
(***************************************************************************)
EXTENDS Integers, Sequences, FiniteSets, TLC

(***************************************************************************)
(* Bounds of the exploration.                                              *)
(***************************************************************************)
\* longest generated input sequence
MaxLen == 4
\* largest context length handed to to_patch
MaxCtx == 3
\* the element values of the generated inputs
Alphabet == {1, 2}

\* core::ops::Range, start..end
ops_Range(start, end) == [start |-> start, end |-> end]
\* ops::Range::is_empty
is_empty(r) == ~(r.start < r.end)

Min(a, b) == IF a < b THEN a ELSE b
Abs(a) == IF a < 0 THEN -a ELSE a
\* usize::saturating_sub
saturating_sub(a, b) == IF a < b THEN 0 ELSE a - b

(***************************************************************************)
(* Range view: (offset, length) into a backing sequence.  The backing      *)
(* sequence is passed next to the view.                                    *)
(***************************************************************************)
Range_new(off, len) == [off |-> off, len |-> len]
EmptyRange == Range_new(0, 0)
\* the elements a view shows
as_slice(s, r) == [i \in 1..r.len |-> s[r.off + i]]
\* r.slice(begin..end), bounds relative to the view
slice(r, begin, end) == Range_new(r.off + begin, end - begin)

\* length of the shared leading run of two views: the first position at
\* which they differ, or the length of the shorter one
common_prefix_len(a, ra, b, rb) ==
    LET lim == Min(ra.len, rb.len)
        differ == {i \in 0..(lim - 1) : a[ra.off + i + 1] # b[rb.off + i + 1]}
    IN  IF differ = {} THEN lim
        ELSE CHOOSE i \in differ : \A j \in differ : i <= j

\* length of the shared trailing run of two views, counted from the ends
common_suffix_len(a, ra, b, rb) ==
    LET lim == Min(ra.len, rb.len)
        differ == {i \in 0..(lim - 1) :
                     a[ra.off + ra.len - i] # b[rb.off + rb.len - i]}
    IN  IF differ = {} THEN lim
        ELSE CHOOSE i \in differ : \A j \in differ : i <= j

(***************************************************************************)
(* Frontier array V: a dense array of 2*max_d entries and a bias.          *)
(***************************************************************************)
\* a mutant of max_d: without the additional + 1
max_d_without_one(len1, len2) == (len1 + len2 + 1) \div 2

max_d(len1, len2) == (len1 + len2 + 1) \div 2 + 1

\* a mutant of V_new: no bias
V_new_unbiased(md) == [offset |-> 0, v |-> [i \in 0..(2 * md - 1) |-> 0]]

V_new(md) == [offset |-> md, v |-> [i \in 0..(2 * md - 1) |-> 0]]
V_len(V) == Cardinality(DOMAIN V.v)
\* the storage index of diagonal k is inside the array
V_in(V, k) == (k + V.offset) \in DOMAIN V.v
V_index(V, k) == V.v[k + V.offset]
V_index_mut(V, k, x) == [V EXCEPT !.v[k + V.offset] = x]

(***************************************************************************)
(* Middle-snake search.  The search state st carries the two frontier      *)
(* arrays, the diagonals written so far by this invocation (wf, wb),       *)
(* whether an entry was read that this invocation had not written (stale), *)
(* the reason of an abort (panic, "" when none) and the result.            *)
(*                                                                         *)
(* y = (x as isize - k) as usize wraps when x < k; the model keeps y as an *)
(* integer and a negative y stands for the wrapped value, which is larger  *)
(* than every length.                                                      *)
(***************************************************************************)
NoSnake == [x_start |-> 0, y_start |-> 0, x_end |-> 0, y_end |-> 0]

fms_start(vf, vb) ==
    [vf |-> vf, vb |-> vb, wf |-> {}, wb |-> {}, stale |-> FALSE,
     panic |-> "", done |-> FALSE, dist |-> 0, snake |-> NoSnake]

\* a mutant of fms_init: the two initial points are not written
fms_init_unwritten(vf, vb) == fms_start(vf, vb)

\* vf[1] = 0; vb[1] = 0: the initial points (0, -1) and (N, M + 1),
\* lines 172-175
fms_init(vf, vb) ==
    [fms_start(V_index_mut(vf, 1, 0), V_index_mut(vb, 1, 0))
        EXCEPT !.wf = {1}, !.wb = {1}]

\* the neighbour diagonals the choice of x reads (short-circuit evaluation)
neighbour_reads(d, k) ==
    IF k = -d THEN {k + 1} ELSE IF k = d THEN {k - 1} ELSE {k - 1, k + 1}

\* a mutant of choose_x: the comparison of the neighbours is inverted
choose_x_inverted(V, d, k) ==
    IF k = -d \/ (k # d /\ V_index(V, k - 1) > V_index(V, k + 1))
    THEN V_index(V, k + 1)
    ELSE V_index(V, k - 1) + 1

\* a mutant of choose_x: a tie between the neighbours takes diagonal k + 1
choose_x_tie(V, d, k) ==
    IF k = -d \/ (k # d /\ V_index(V, k - 1) <= V_index(V, k + 1))
    THEN V_index(V, k + 1)
    ELSE V_index(V, k - 1) + 1

\* the choice of x from the neighbours of diagonal k in frontier V
choose_x(V, d, k) ==
    IF k = -d \/ (k # d /\ V_index(V, k - 1) < V_index(V, k + 1))
    THEN V_index(V, k + 1)
    ELSE V_index(V, k - 1) + 1

\* one iteration of the forward loop, lines 184-219
forward_step(st, a, ra, b, rb, d, k) ==
    LET n == ra.len
        m == rb.len
        delta == n - m
        odd == delta % 2 = 1
        reads == neighbour_reads(d, k)
    IN  IF \E i \in reads \cup {k} : ~V_in(st.vf, i)
        THEN [st EXCEPT !.panic = "index"]
        ELSE
        LET x0 == choose_x(st.vf, d, k)
            y0 == x0 - k
            advance ==
                IF x0 <= n /\ 0 <= y0 /\ y0 <= m
                THEN common_prefix_len(a, slice(ra, x0, n), b, slice(rb, y0, m))
                ELSE 0
            x == x0 + advance
            y == y0 + advance
            vf1 == V_index_mut(st.vf, k, x)
            st1 == [st EXCEPT !.vf = vf1,
                              !.wf = @ \cup {k},
                              !.stale = @ \/ ~(reads \subseteq st.wf)]
        IN  IF odd /\ Abs(k - delta) <= d - 1
            THEN IF ~V_in(st1.vb, -(k - delta))
                 THEN [st1 EXCEPT !.panic = "index"]
                 ELSE LET st2 == [st1 EXCEPT
                                     !.stale = @ \/ (-(k - delta)) \notin st1.wb]
                      IN  IF V_index(vf1, k) + V_index(st1.vb, -(k - delta)) >= n
                          THEN [st2 EXCEPT
                                   !.done = TRUE,
                                   !.dist = 2 * d - 1,
                                   !.snake = [x_start |-> x0, y_start |-> y0,
                                              x_end |-> x, y_end |-> y]]
                          ELSE st2
            ELSE st1

\* a mutant of backward_snake: the coordinates are not mapped back
backward_snake_as_searched(n, m, x0, y0, x, y) ==
    [x_start |-> x0, y_start |-> y0, x_end |-> x, y_end |-> y]

\* the snake of the backward check in the coordinates of the views: the
\* search runs from (N, M), so a run from (x0, y0) to (x, y) of the search
\* is the run from (N - x, M - y) to (N - x0, M - y0), lines 250-255
backward_snake(n, m, x0, y0, x, y) ==
    [x_start |-> n - x, y_start |-> m - y, x_end |-> n - x0, y_end |-> m - y0]

\* one iteration of the backward loop, lines 222-261
backward_step(st, a, ra, b, rb, d, k) ==
    LET n == ra.len
        m == rb.len
        delta == n - m
        odd == delta % 2 = 1
        reads == neighbour_reads(d, k)
    IN  IF \E i \in reads \cup {k} : ~V_in(st.vb, i)
        THEN [st EXCEPT !.panic = "index"]
        ELSE
        LET x0 == choose_x(st.vb, d, k)
            y0 == x0 - k
            advance ==
                IF x0 < n /\ 0 <= y0 /\ y0 < m
                THEN common_suffix_len(a, slice(ra, 0, n - x0),
                                       b, slice(rb, 0, m - y0))
                ELSE 0
            x == x0 + advance
            y == y0 + advance
            vb1 == V_index_mut(st.vb, k, x)
            st1 == [st EXCEPT !.vb = vb1,
                              !.wb = @ \cup {k},
                              !.stale = @ \/ ~(reads \subseteq st.wb)]
        IN  IF ~odd /\ Abs(k - delta) <= d
            THEN IF ~V_in(st1.vf, -(k - delta))
                 THEN [st1 EXCEPT !.panic = "index"]
                 ELSE LET st2 == [st1 EXCEPT
                                     !.stale = @ \/ (-(k - delta)) \notin st1.wf]
                      IN  IF V_index(vb1, k) + V_index(st1.vf, -(k - delta)) >= n
                          THEN IF x > n \/ y > m \/ y0 < 0
                               \* n - x, m - y or m - y0 leaves usize
                               THEN [st2 EXCEPT !.panic = "underflow"]
                               ELSE [st2 EXCEPT
                                        !.done = TRUE,
                                        !.dist = 2 * d,
                                        !.snake =
                                            backward_snake(n, m, x0, y0, x, y)]
                          ELSE st2
            ELSE st1

(***************************************************************************)
(* The loops run their iterations in order and stop at the first return or *)
(* panic.  Iterations lo..hi of a loop are evaluated as lo..mid followed   *)
(* by mid+1..hi, which is the same sequence of iterations with a shallow   *)
(* evaluation.                                                             *)
(***************************************************************************)
\* a mutant of forward_loop: the diagonals are visited in ascending order
RECURSIVE forward_loop_ascending(_, _, _, _, _, _, _, _)
forward_loop_ascending(st, a, ra, b, rb, d, lo, hi) ==
    IF st.done \/ st.panic # "" \/ lo > hi
    THEN st
    ELSE IF lo = hi
    THEN forward_step(st, a, ra, b, rb, d, 2 * lo - d)
    ELSE LET mid == (lo + hi) \div 2
         IN  forward_loop_ascending(
                 forward_loop_ascending(st, a, ra, b, rb, d, lo, mid),
                 a, ra, b, rb, d, mid + 1, hi)

\* iterations lo..hi of `for k in (-d..=d).rev().step_by(2)`, forward path;
\* iteration j has k = d - 2j
RECURSIVE forward_loop(_, _, _, _, _, _, _, _)
forward_loop(st, a, ra, b, rb, d, lo, hi) ==
    IF st.done \/ st.panic # "" \/ lo > hi
    THEN st
    ELSE IF lo = hi
    THEN forward_step(st, a, ra, b, rb, d, d - 2 * lo)
    ELSE LET mid == (lo + hi) \div 2
         IN  forward_loop(forward_loop(st, a, ra, b, rb, d, lo, mid),
                          a, ra, b, rb, d, mid + 1, hi)

\* a mutant of backward_loop: the diagonals are visited in ascending order
RECURSIVE backward_loop_ascending(_, _, _, _, _, _, _, _)
backward_loop_ascending(st, a, ra, b, rb, d, lo, hi) ==
    IF st.done \/ st.panic # "" \/ lo > hi
    THEN st
    ELSE IF lo = hi
    THEN backward_step(st, a, ra, b, rb, d, 2 * lo - d)
    ELSE LET mid == (lo + hi) \div 2
         IN  backward_loop_ascending(
                 backward_loop_ascending(st, a, ra, b, rb, d, lo, mid),
                 a, ra, b, rb, d, mid + 1, hi)

\* the same for the backward path
RECURSIVE backward_loop(_, _, _, _, _, _, _, _)
backward_loop(st, a, ra, b, rb, d, lo, hi) ==
    IF st.done \/ st.panic # "" \/ lo > hi
    THEN st
    ELSE IF lo = hi
    THEN backward_step(st, a, ra, b, rb, d, d - 2 * lo)
    ELSE LET mid == (lo + hi) \div 2
         IN  backward_loop(backward_loop(st, a, ra, b, rb, d, lo, mid),
                           a, ra, b, rb, d, mid + 1, hi)

\* iterations lo..hi of `for d in 0..d_max`
RECURSIVE d_loop(_, _, _, _, _, _, _)
d_loop(st, a, ra, b, rb, lo, hi) ==
    IF st.done \/ st.panic # "" \/ lo > hi
    THEN st
    ELSE IF lo = hi
    THEN backward_loop(forward_loop(st, a, ra, b, rb, lo, 0, lo),
                       a, ra, b, rb, lo, 0, lo)
    ELSE LET mid == (lo + hi) \div 2
         IN  d_loop(d_loop(st, a, ra, b, rb, lo, mid), a, ra, b, rb, mid + 1, hi)

\* find_middle_snake(old, new, vf, vb): the search state at its return
find_middle_snake(a, ra, b, rb, vf, vb) ==
    IF ~V_in(vf, 1) \/ ~V_in(vb, 1)
    THEN [fms_start(vf, vb) EXCEPT !.panic = "index"]
    ELSE LET st0 == fms_init(vf, vb)
             dm == max_d(ra.len, rb.len)
         IN  IF V_len(vf) < dm \/ V_len(vb) < dm
             THEN [st0 EXCEPT !.panic = "assert"]
             ELSE LET st == d_loop(st0, a, ra, b, rb, 0, dm - 1)
                  IN  IF st.done \/ st.panic # ""
                      THEN st
                      \* unreachable!("unable to find a middle snake")
                      ELSE [st EXCEPT !.panic = "unreachable"]

(***************************************************************************)
(* Line classifier: content -> dense id in first-seen order.               *)
(***************************************************************************)
Classifier_default == [next_id |-> 0, unique_ids |-> <<>>]

\* the table is a sequence of <<content, id>> entries
classifier_lookup(c, record) ==
    {c.unique_ids[i][2] : i \in {j \in 1..Len(c.unique_ids) :
                                    c.unique_ids[j][1] = record}}

\* a mutant of classify: every call takes the next id
classify_always_vacant(c, record) ==
    <<[next_id |-> c.next_id + 1,
       unique_ids |-> Append(c.unique_ids, <<record, c.next_id>>)],
      c.next_id>>

\* classify(record): <<classifier after the call, id returned>>
classify(c, record) ==
    LET hit == classifier_lookup(c, record)
    IN  IF hit # {}
        THEN <<c, CHOOSE id \in hit : TRUE>>
        ELSE <<[next_id |-> c.next_id + 1,
                unique_ids |-> Append(c.unique_ids, <<record, c.next_id>>)],
               c.next_id>>

(***************************************************************************)
(* DiffRange units and the frames of the depth-first recursion of conquer. *)
(***************************************************************************)
Equal(ro, rn) == [tag |-> "Equal", old |-> ro, new |-> rn]
Delete(ro) == [tag |-> "Delete", old |-> ro, new |-> EmptyRange]
Insert(rn) == [tag |-> "Insert", old |-> EmptyRange, new |-> rn]

\* a pending call conquer(old, new, ..)
CallFrame(ro, rn) == [kind |-> "conquer", old |-> ro, new |-> rn]
\* the deferred push of the common suffix of a call that recursed
SuffixFrame(u) == [kind |-> "suffix", old |-> u.old, new |-> u.new]

\* the Equal unit of a common prefix of length n, lines 279-282
common_prefix(ro, rn, n) == Equal(slice(ro, 0, n), slice(rn, 0, n))

\* a mutant of common_suffix: the new side is taken from the front
common_suffix_front(ro, rn, n) ==
    Equal(slice(ro, ro.len - n, ro.len), slice(rn, 0, n))

\* the Equal unit of a common suffix of length n, lines 291-294
common_suffix(ro, rn, n) ==
    Equal(slice(ro, ro.len - n, ro.len), slice(rn, rn.len - n, rn.len))

\* a mutant of strip_suffix: the view keeps its common suffix
strip_suffix_kept(r, n) == r

\* a mutant of strip_prefix: the view keeps its common prefix
strip_prefix_kept(r, n) == r

\* old = old.slice(n, old.len()): the view without its common prefix
strip_prefix(r, n) == slice(r, n, r.len)
\* old = old.slice(0, old.len() - n): the view without its common suffix
strip_suffix(r, n) == slice(r, 0, r.len - n)

\* split_at(mid) of a view
split_at(r, mid) == <<Range_new(r.off, mid), Range_new(r.off + mid, r.len - mid)>>

\* Diff::from / the closure of diff_str: the content a unit carries
Diff_from(a, b, u) ==
    IF u.tag = "Insert"
    THEN [tag |-> u.tag, content |-> as_slice(b, u.new)]
    ELSE [tag |-> u.tag, content |-> as_slice(a, u.old)]

(***************************************************************************)
(* Edit-script compressor.                                                 *)
(***************************************************************************)
EditRange_new(os, oe, ns, ne) ==
    [old |-> [start |-> os, end |-> oe], new |-> [start |-> ns, end |-> ne]]

\* a mutant of build_step: an Equal unit does not advance the new cursor
build_step_new_cursor_kept(bs, diff) ==
    IF diff.tag = "Equal"
    THEN [idx_a |-> bs.idx_a + diff.old.len,
          idx_b |-> bs.idx_b,
          edit_script |-> bs.edit_script \o bs.script,
          script |-> <<>>]
    ELSE IF diff.tag = "Delete"
    THEN [bs EXCEPT
            !.script =
                IF bs.script # <<>>
                THEN <<[bs.script[1] EXCEPT !.old.end = @ + diff.old.len]>>
                ELSE <<EditRange_new(bs.idx_a, bs.idx_a + diff.old.len,
                                     bs.idx_b, bs.idx_b)>>,
            !.idx_a = @ + diff.old.len]
    ELSE [bs EXCEPT
            !.script =
                IF bs.script # <<>>
                THEN <<[bs.script[1] EXCEPT !.new.end = @ + diff.new.len]>>
                ELSE <<EditRange_new(bs.idx_a, bs.idx_a,
                                     bs.idx_b, bs.idx_b + diff.new.len)>>,
            !.idx_b = @ + diff.new.len]

\* one iteration of the loop over the solution; script is <<>> (None) or <<r>>
build_step(bs, diff) ==
    IF diff.tag = "Equal"
    THEN [idx_a |-> bs.idx_a + diff.old.len,
          idx_b |-> bs.idx_b + diff.new.len,
          edit_script |-> bs.edit_script \o bs.script,
          script |-> <<>>]
    ELSE IF diff.tag = "Delete"
    THEN [bs EXCEPT
            !.script =
                IF bs.script # <<>>
                THEN <<[bs.script[1] EXCEPT !.old.end = @ + diff.old.len]>>
                ELSE <<EditRange_new(bs.idx_a, bs.idx_a + diff.old.len,
                                     bs.idx_b, bs.idx_b)>>,
            !.idx_a = @ + diff.old.len]
    ELSE [bs EXCEPT
            !.script =
                IF bs.script # <<>>
                THEN <<[bs.script[1] EXCEPT !.new.end = @ + diff.new.len]>>
                ELSE <<EditRange_new(bs.idx_a, bs.idx_a,
                                     bs.idx_b, bs.idx_b + diff.new.len)>>,
            !.idx_b = @ + diff.new.len]

\* iterations lo..hi of `for diff in solution`
RECURSIVE build_loop(_, _, _, _)
build_loop(bs, sol, lo, hi) ==
    IF lo > hi
    THEN bs
    ELSE IF lo = hi
    THEN build_step(bs, sol[lo])
    ELSE LET mid == (lo + hi) \div 2
         IN  build_loop(build_loop(bs, sol, lo, mid), sol, mid + 1, hi)

build_edit_script(sol) ==
    LET bs == build_loop([idx_a |-> 0, idx_b |-> 0,
                          edit_script |-> <<>>, script |-> <<>>],
                         sol, 1, Len(sol))
    IN  bs.edit_script \o bs.script

(***************************************************************************)
(* Patch/hunk assembler.                                                   *)
(***************************************************************************)
\* text.get(s..e): the lines, or nothing when the range is not inside text
get_lines(text, s, e) ==
    IF s <= e /\ e <= Len(text) THEN [i \in 1..(e - s) |-> text[s + i]] ELSE <<>>

tagged(tag, lines) == [i \in 1..Len(lines) |-> [tag |-> tag, line |-> lines[i]]]

\* a mutant of calc_end: the post-context is not cut at the end of the texts
calc_end_unclamped(context_len, text1_len, text2_len, script1_end, script2_end) ==
    <<script1_end + context_len, script2_end + context_len>>

calc_end(context_len, text1_len, text2_len, script1_end, script2_end) ==
    LET post_context_len ==
            Min(context_len,
                Min(saturating_sub(text1_len, script1_end),
                    saturating_sub(text2_len, script2_end)))
    IN  <<script1_end + post_context_len, script2_end + post_context_len>>

HunkRange_new(start, len) == [start |-> start, len |-> len]

\* a mutant of range_start: the start is 1-based whatever the length
range_start_one_based(start, len) == start + 1

\* the start a range descriptor reports, lines 529 and 532
range_start(start, len) == IF len > 0 THEN start + 1 ELSE start

\* a mutant of can_merge: a region that starts at the end of the hunk merges
can_merge_touching(s, a_len, context_len, end1) ==
    saturating_sub(Min(s.old.start, a_len - 1), context_len) <= end1

\* a mutant of can_merge: regions are never merged
can_merge_never(s, a_len, context_len, end1) == FALSE

\* the next region s is merged into the hunk that ends at end1, lines 490-492
can_merge(s, a_len, context_len, end1) ==
    saturating_sub(Min(s.old.start, a_len - 1), context_len) < end1

\* a mutant of between_context: the lines are read at the old-side index
between_context_old_index(b_text, script, s) ==
    LET cnt == Min(IF script.old.end < s.old.start
                   THEN s.old.start - script.old.end ELSE 0,
                   IF script.new.end < s.new.start
                   THEN s.new.start - script.new.end ELSE 0)
        idxs == {i \in 0..(cnt - 1) : script.old.end + i < Len(b_text)}
    IN  tagged("Context",
               [j \in 1..Cardinality(idxs) |-> b_text[script.old.end + j]])

\* the context lines between two merged regions, lines 494-501
between_context(b_text, script, s) ==
    LET cnt == Min(IF script.old.end < s.old.start
                   THEN s.old.start - script.old.end ELSE 0,
                   IF script.new.end < s.new.start
                   THEN s.new.start - script.new.end ELSE 0)
        idxs == {i \in 0..(cnt - 1) : script.new.end + i < Len(b_text)}
    IN  tagged("Context",
               [j \in 1..Cardinality(idxs) |-> b_text[script.new.end + j]])

\* the inner loop of to_patch, lines 467-521; h is the hunk being built
RECURSIVE merge_loop(_, _, _, _, _)
merge_loop(a_text, b_text, es, context_len, h) ==
    LET script == es[h.idx + 1]
        lines1 == h.lines
                  \o tagged("Delete",
                            get_lines(a_text, script.old.start, script.old.end))
                  \o tagged("Insert",
                            get_lines(b_text, script.new.start, script.new.end))
    IN  IF h.idx + 1 < Len(es)
        THEN LET s == es[h.idx + 2]
             IN  IF Len(a_text) = 0
                 \* a_text.len() - 1 leaves usize
                 THEN [h EXCEPT !.lines = lines1, !.panic = "underflow"]
                 ELSE IF can_merge(s, Len(a_text), context_len, h.end1)
                 THEN LET e == calc_end(context_len, Len(a_text),
                                        Len(b_text), s.old.end, s.new.end)
                      IN  merge_loop(a_text, b_text, es, context_len,
                              [h EXCEPT
                                 !.lines = lines1
                                    \o between_context(b_text, script, s),
                                 !.end1 = e[1],
                                 !.end2 = e[2],
                                 !.idx = @ + 1])
                 ELSE [h EXCEPT !.lines = lines1]
        ELSE [h EXCEPT !.lines = lines1]

\* one iteration of the outer loop of to_patch, lines 443-536
make_hunk(a_text, b_text, es, context_len, idx) ==
    LET script == es[idx + 1]
        start1 == saturating_sub(script.old.start, context_len)
        start2 == saturating_sub(script.new.start, context_len)
        e == calc_end(context_len, Len(a_text), Len(b_text),
                      script.old.end, script.new.end)
        h == merge_loop(a_text, b_text, es, context_len,
                [idx |-> idx, end1 |-> e[1], end2 |-> e[2], panic |-> "",
                 lines |-> tagged("Context",
                                  get_lines(b_text, start2, script.new.start))])
        last == es[h.idx + 1]
        lines == h.lines
                 \o tagged("Context", get_lines(b_text, last.new.end, h.end2))
        len1 == h.end1 - start1
        len2 == h.end2 - start2
    IN  [idx |-> h.idx + 1,
         panic |-> IF h.panic # "" THEN h.panic
                   ELSE IF len1 < 0 \/ len2 < 0 THEN "underflow" ELSE "",
         hunk |-> [old_range |-> HunkRange_new(range_start(start1, len1), len1),
                   new_range |-> HunkRange_new(range_start(start2, len2), len2),
                   lines |-> lines,
                   \* ghost fields: the indices of the first and the last
                   \* region of the edit script this hunk holds
                   first |-> idx, last |-> h.idx]]

RECURSIVE hunk_loop(_, _, _, _, _)
hunk_loop(a_text, b_text, es, context_len, tp) ==
    IF tp.panic # "" \/ tp.idx >= Len(es)
    THEN tp
    ELSE LET r == make_hunk(a_text, b_text, es, context_len, tp.idx)
         IN  hunk_loop(a_text, b_text, es, context_len,
                       [idx |-> r.idx, panic |-> r.panic,
                        hunks |-> IF r.panic # "" THEN tp.hunks
                                  ELSE Append(tp.hunks, r.hunk)])

\* DiffLines::to_patch(context_len)
to_patch(a_text, b_text, es, context_len) ==
    hunk_loop(a_text, b_text, es, context_len,
              [idx |-> 0, panic |-> "", hunks |-> <<>>])

(***************************************************************************)
(* The program as a state machine.                                         *)
(*                                                                         *)
(* old, new      the two inputs (elements, or lines in line mode)          *)
(* entry         the entry point called: "diff", "diff_str" or             *)
(*               "diff_str_lines", or the builder the diff engine reports  *)
(*               to                                                        *)
(* a_ids, b_ids  the sequences handed to do_diff, or the token sequences   *)
(*               (before, after) of a builder                              *)
(* classifier    the Classifier of diff_str_lines                          *)
(* pc            "start", "classify" (diff_str_lines maps the lines to     *)
(*               ids), "conquer" (inside do_diff), "done" (diff returned), *)
(*               "lines" (diff_str_lines returned a DiffLines), "patched"  *)
(*               (to_patch returned), "aborted" (panic)                    *)
(* stack         the pending conquer calls and deferred suffix pushes,     *)
(*               innermost first                                           *)
(* solution      the Vec<DiffRange> being built                            *)
(* vf, vb        the two frontier arrays allocated by do_diff              *)
(* stale         some search read a frontier entry it had not written      *)
(* divides       ghost: one record per divide step of conquer              *)
(* panic         the reason of the abort, "" when none                     *)
(* result        the Vec<Diff> returned by diff                            *)
(* edit_script   the change regions of the DiffLines                       *)
(* context_len, hunks   the argument and the result of the last to_patch   *)
(* changes       the changes the diff engine reports to a builder          *)
(* reported      the number of changes reported so far                     *)
(* prev_before, prev_after   the ranges of the last change a builder saw   *)
(***************************************************************************)
VARIABLES old, new, entry, classifier, a_ids, b_ids, pc, stack, solution,
          vf, vb, stale, divides, panic, result, edit_script, context_len,
          hunks, changes, reported, prev_before, prev_after

sink_vars == <<changes, reported, prev_before, prev_after>>

vars == <<old, new, entry, classifier, a_ids, b_ids, pc, stack, solution,
          vf, vb, stale, divides, panic, result, edit_script, context_len,
          hunks, sink_vars>>

\* all sequences over S of length at most n
SeqsUpTo(S, n) == UNION {[1..k -> S] : k \in 0..n}

\* scenario 1 of the tests (diff_test2, diff_str): A = 1, B = 2, C = 3
Scenario1Old == <<1, 2, 3, 1, 2, 2, 1>>
Scenario1New == <<3, 2, 1, 2, 1, 3>>
\* diff_test3: "abgdef" / "gh"
Scenario3Old == <<1, 2, 7, 4, 5, 6>>
Scenario3New == <<7, 8>>
\* diff_test4: "bat" / "map", a letter being its place in the alphabet
Scenario2Old == <<2, 1, 20>>
Scenario2New == <<13, 1, 16>>
\* diff_test5: "abc" / "def"
Scenario5Old == <<1, 2, 3>>
Scenario5New == <<4, 5, 6>>
\* the texts of tests::sample, one number per distinct line
Lao == <<11, 12, 13, 14, 15, 16, 17, 18, 19, 20, 21>>
Tzu == <<13, 22, 23, 15, 16, 17, 18, 19, 20, 21, 24, 25, 26>>

Scenarios ==
    {<<Scenario1Old, Scenario1New>>, <<Scenario2Old, Scenario2New>>,
     <<Scenario3Old, Scenario3New>>, <<Scenario5Old, Scenario5New>>,
     <<Lao, Tzu>>}

Inputs ==
    (SeqsUpTo(Alphabet, MaxLen) \X SeqsUpTo(Alphabet, MaxLen)) \cup Scenarios

Init ==
    /\ \E io \in Inputs : old = io[1] /\ new = io[2]
    /\ entry = "none"
    /\ classifier = Classifier_default
    /\ a_ids = <<>>
    /\ b_ids = <<>>
    /\ pc = "start"
    /\ stack = <<>>
    /\ solution = <<>>
    /\ vf = V_new(0)
    /\ vb = V_new(0)
    /\ stale = FALSE
    /\ divides = <<>>
    /\ panic = ""
    /\ result = <<>>
    /\ edit_script = <<>>
    /\ context_len = 0
    /\ hunks = <<>>
    /\ changes = <<>>
    /\ reported = 0
    /\ prev_before = ops_Range(0, 0)
    /\ prev_after = ops_Range(0, 0)

\* do_diff up to the first call of conquer, lines 321-334
do_diff(a, b) ==
    /\ vf' = V_new(max_d(Len(a), Len(b)))
    /\ vb' = V_new(max_d(Len(a), Len(b)))
    /\ solution' = <<>>
    /\ stack' = <<CallFrame(Range_new(0, Len(a)), Range_new(0, Len(b)))>>
    /\ pc' = "conquer"

\* Myers::diff / Myers::diff_str called: do_diff runs on the elements
Diff ==
    /\ pc = "start"
    /\ entry' = "diff"
    /\ a_ids' = old
    /\ b_ids' = new
    /\ do_diff(old, new)
    /\ UNCHANGED <<sink_vars, old, new, classifier, stale, divides, panic, result,
                   edit_script, context_len, hunks>>

\* str::as_bytes of a string whose characters are all ASCII: one byte per
\* character, of the character's value
as_bytes(s) == [i \in 1..Len(s) |-> s[i]]

\* Myers::diff_str called: do_diff runs on the bytes of the strings, line 347
DiffStr ==
    /\ pc = "start"
    /\ entry' = "diff_str"
    /\ a_ids' = as_bytes(old)
    /\ b_ids' = as_bytes(new)
    /\ do_diff(as_bytes(old), as_bytes(new))
    /\ UNCHANGED <<sink_vars, old, new, classifier, stale, divides, panic, result,
                   edit_script, context_len, hunks>>

\* Myers::diff_str_lines called, line 366
DiffStrLines ==
    /\ pc = "start"
    /\ entry' = "diff_str_lines"
    /\ classifier' = Classifier_default
    /\ pc' = "classify"
    /\ UNCHANGED <<sink_vars, old, new, a_ids, b_ids, stack, solution, vf, vb, stale,
                   divides, panic, result, edit_script, context_len, hunks>>

\* the next line is classified: all of old, then all of new, lines 367-374
ClassifyLine ==
    /\ pc = "classify"
    /\ \/ /\ Len(a_ids) < Len(old)
          /\ LET r == classify(classifier, old[Len(a_ids) + 1])
             IN  /\ classifier' = r[1]
                 /\ a_ids' = Append(a_ids, r[2])
          /\ b_ids' = b_ids
       \/ /\ Len(a_ids) = Len(old)
          /\ Len(b_ids) < Len(new)
          /\ LET r == classify(classifier, new[Len(b_ids) + 1])
             IN  /\ classifier' = r[1]
                 /\ b_ids' = Append(b_ids, r[2])
          /\ a_ids' = a_ids
    /\ UNCHANGED <<sink_vars, old, new, entry, pc, stack, solution, vf, vb, stale,
                   divides, panic, result, edit_script, context_len, hunks>>

\* diff_str_lines calls do_diff on the ids, line 376
DiffIds ==
    /\ pc = "classify"
    /\ Len(a_ids) = Len(old)
    /\ Len(b_ids) = Len(new)
    /\ do_diff(a_ids, b_ids)
    /\ UNCHANGED <<sink_vars, old, new, entry, classifier, a_ids, b_ids, stale, divides,
                   panic, result, edit_script, context_len, hunks>>

\* one call of conquer, up to its recursive calls (lines 269-319)
Conquer ==
    /\ pc = "conquer"
    /\ stack # <<>>
    /\ Head(stack).kind = "conquer"
    /\ LET old0 == Head(stack).old
           new0 == Head(stack).new
           common_prefix_len_ == common_prefix_len(a_ids, old0, b_ids, new0)
           sol1 == IF common_prefix_len_ > 0
                   THEN Append(solution,
                               common_prefix(old0, new0, common_prefix_len_))
                   ELSE solution
           old1 == strip_prefix(old0, common_prefix_len_)
           new1 == strip_prefix(new0, common_prefix_len_)
           common_suffix_len_ == common_suffix_len(a_ids, old1, b_ids, new1)
           common_suffix_ == common_suffix(old1, new1, common_suffix_len_)
           old2 == strip_suffix(old1, common_suffix_len_)
           new2 == strip_suffix(new1, common_suffix_len_)
           with_suffix(sol) == IF common_suffix_len_ > 0
                               THEN Append(sol, common_suffix_)
                               ELSE sol
       IN  IF old2.len = 0
           THEN /\ solution' = with_suffix(Append(sol1, Insert(new2)))
                /\ stack' = Tail(stack)
                /\ UNCHANGED <<vf, vb, stale, divides, panic, pc>>
           ELSE IF new2.len = 0
           THEN /\ solution' = with_suffix(Append(sol1, Delete(old2)))
                /\ stack' = Tail(stack)
                /\ UNCHANGED <<vf, vb, stale, divides, panic, pc>>
           ELSE LET st == find_middle_snake(a_ids, old2, b_ids, new2, vf, vb)
                    snake == st.snake
                    bad_split == \/ snake.x_start < 0 \/ snake.x_start > old2.len
                                 \/ snake.y_start < 0 \/ snake.y_start > new2.len
                    olds == split_at(old2, snake.x_start)
                    news == split_at(new2, snake.y_start)
                IN  /\ vf' = st.vf
                    /\ vb' = st.vb
                    /\ stale' = (stale \/ st.stale)
                    /\ solution' = sol1
                    /\ IF st.panic # "" \/ bad_split
                       THEN /\ panic' = IF st.panic # "" THEN st.panic
                                        ELSE "split_at"
                            /\ pc' = "aborted"
                            /\ stack' = stack
                            /\ divides' = divides
                       ELSE /\ panic' = panic
                            /\ pc' = pc
                            /\ divides' = Append(divides,
                                   [old |-> old2, new |-> new2,
                                    dist |-> st.dist, snake |-> snake])
                            /\ stack' =
                                 <<CallFrame(olds[1], news[1]),
                                   CallFrame(olds[2], news[2])>>
                                 \o (IF common_suffix_len_ > 0
                                     THEN <<SuffixFrame(common_suffix_)>>
                                     ELSE <<>>)
                                 \o Tail(stack)
    /\ UNCHANGED <<sink_vars, old, new, entry, classifier, a_ids, b_ids, result, edit_script,
                   context_len, hunks>>

\* a call of conquer that recursed pushes its common suffix, lines 316-318
PushSuffix ==
    /\ pc = "conquer"
    /\ stack # <<>>
    /\ Head(stack).kind = "suffix"
    /\ solution' = Append(solution, Equal(Head(stack).old, Head(stack).new))
    /\ stack' = Tail(stack)
    /\ UNCHANGED <<sink_vars, old, new, entry, classifier, a_ids, b_ids, pc, vf, vb, stale, divides,
                   panic, result, edit_script, context_len, hunks>>

\* do_diff returned to diff, which maps the units to their content
DiffReturn ==
    /\ pc = "conquer"
    /\ stack = <<>>
    /\ entry = "diff"
    /\ result' = [i \in 1..Len(solution) |-> Diff_from(old, new, solution[i])]
    /\ pc' = "done"
    /\ UNCHANGED <<sink_vars, old, new, entry, classifier, a_ids, b_ids, stack, solution, vf, vb,
                   stale, divides, panic, edit_script, context_len, hunks>>

\* a mutant of str_piece: the piece is always cut from old
str_piece_of_old(a, b, u) ==
    [tag |-> u.tag,
     content |-> SubSeq(a, u.old.off + 1, u.old.off + u.old.len)]

\* the closure of diff_str, lines 351-361: the piece of old (Equal, Delete)
\* or of new (Insert) at range.offset()..range.offset() + range.len()
str_piece(a, b, u) ==
    IF u.tag = "Insert"
    THEN [tag |-> u.tag,
          content |-> SubSeq(b, u.new.off + 1, u.new.off + u.new.len)]
    ELSE [tag |-> u.tag,
          content |-> SubSeq(a, u.old.off + 1, u.old.off + u.old.len)]

\* do_diff returned to diff_str, which cuts the units out of the strings
DiffStrReturn ==
    /\ pc = "conquer"
    /\ stack = <<>>
    /\ entry = "diff_str"
    /\ result' = [i \in 1..Len(solution) |-> str_piece(old, new, solution[i])]
    /\ pc' = "done"
    /\ UNCHANGED <<sink_vars, old, new, entry, classifier, a_ids, b_ids, stack, solution, vf, vb,
                   stale, divides, panic, edit_script, context_len, hunks>>

\* do_diff returned to diff_str_lines, which compresses the script
DiffStrLinesReturn ==
    /\ pc = "conquer"
    /\ stack = <<>>
    /\ entry = "diff_str_lines"
    /\ edit_script' = build_edit_script(solution)
    /\ pc' = "lines"
    /\ UNCHANGED <<sink_vars, old, new, entry, classifier, a_ids, b_ids, stack, solution, vf, vb,
                   stale, divides, panic, result, context_len, hunks>>

\* DiffLines::to_patch(C), callable any number of times on one DiffLines
ToPatch ==
    /\ pc \in {"lines", "patched"}
    /\ \E C \in 0..MaxCtx :
         LET tp == to_patch(old, new, edit_script, C)
         IN  /\ context_len' = C
             /\ hunks' = tp.hunks
             /\ panic' = tp.panic
             /\ pc' = IF tp.panic # "" THEN "aborted" ELSE "patched"
    /\ UNCHANGED <<sink_vars, old, new, entry, classifier, a_ids, b_ids, stack, solution, vf, vb,
                   stale, divides, result, edit_script>>

Next ==
    \/ Diff
    \/ DiffStr
    \/ DiffStrLines
    \/ ClassifyLine
    \/ DiffIds
    \/ Conquer
    \/ PushSuffix
    \/ DiffReturn
    \/ DiffStrReturn
    \/ DiffStrLinesReturn
    \/ ToPatch

Spec == Init /\ [][Next]_vars

(***************************************************************************)
(* The compressor on its own: build_edit_script applied to every script    *)
(* of at most MaxUnits units that tiles its two sequences.  A script is    *)
(* drawn as its shape, the tag and the length of every unit; the views of  *)
(* the units follow from the tiling.  Equal units are not empty, as in     *)
(* every script a backend builds; Delete and Insert units may be.          *)
(***************************************************************************)
\* most units of a generated script
MaxUnits == 4
\* the lengths of the units of a generated script
UnitLens == {0, 1, 2}

Shapes ==
    UNION {[1..k -> {sh \in {"Equal", "Delete", "Insert"} \X UnitLens :
                       sh[1] = "Equal" => sh[2] > 0}]
           : k \in 0..MaxUnits}

\* the elements of side tags in the first n units of a shape
RECURSIVE cursor(_, _, _)
cursor(shape, tags, n) ==
    IF n = 0 THEN 0
    ELSE cursor(shape, tags, n - 1)
           + (IF shape[n][1] \in tags THEN shape[n][2] ELSE 0)

\* the script of a shape: unit i views the elements after those of the
\* units before it
script_of(shape) ==
    [i \in 1..Len(shape) |->
        LET ro == Range_new(cursor(shape, {"Equal", "Delete"}, i - 1),
                            shape[i][2])
            rn == Range_new(cursor(shape, {"Equal", "Insert"}, i - 1),
                            shape[i][2])
        IN  IF shape[i][1] = "Equal" THEN Equal(ro, rn)
            ELSE IF shape[i][1] = "Delete" THEN Delete(ro)
            ELSE Insert(rn)]

InitCompressor ==
    /\ \E shape \in Shapes : solution = script_of(shape)
    /\ pc = "script"
    /\ old = <<>>
    /\ new = <<>>
    /\ entry = "none"
    /\ classifier = Classifier_default
    /\ a_ids = <<>>
    /\ b_ids = <<>>
    /\ stack = <<>>
    /\ vf = V_new(0)
    /\ vb = V_new(0)
    /\ stale = FALSE
    /\ divides = <<>>
    /\ panic = ""
    /\ result = <<>>
    /\ edit_script = <<>>
    /\ context_len = 0
    /\ hunks = <<>>
    /\ changes = <<>>
    /\ reported = 0
    /\ prev_before = ops_Range(0, 0)
    /\ prev_after = ops_Range(0, 0)

\* build_edit_script(&solution), line 378
BuildEditScript ==
    /\ pc = "script"
    /\ edit_script' = build_edit_script(solution)
    /\ pc' = "regions"
    /\ UNCHANGED <<sink_vars, old, new, entry, classifier, a_ids, b_ids, stack, solution, vf, vb,
                   stale, divides, panic, result, context_len, hunks>>

NextCompressor == BuildEditScript

SpecCompressor == InitCompressor /\ [][NextCompressor]_vars

(***************************************************************************)
(* The builders of a DiffRange script from the changes a diff engine       *)
(* reports: the closure of diff in diff/histogram.rs, the                  *)
(* DiffyDiffRangeBuilder of diff/histogram/diffy_diff_range.rs and the     *)
(* DiffyDiffRangeBuilder of sink.rs.  The engine reports the changes in    *)
(* increasing order; what lies between two changes, before the first and   *)
(* after the last one is unchanged and as long in before as in after.      *)
(* A sequence of changes is drawn as its shape: for every change the       *)
(* length of the unchanged gap in front of it, of its before range and of  *)
(* its after range, and the length of the unchanged rest.                  *)
(***************************************************************************)
\* most changes the engine reports
MaxChanges == 2
\* the lengths of the gaps and of the ranges of the changes
ChangeLens == {0, 1, 2}

ChangeShapes ==
    UNION {[1..k -> {c \in [gap : ChangeLens, del : ChangeLens, ins : ChangeLens] :
                       c.del + c.ins > 0}]
           : k \in 0..MaxChanges}

\* the end of the before (side = "del") or after (side = "ins") range of
\* change n of a shape
RECURSIVE change_end(_, _, _)
change_end(shape, side, n) ==
    IF n = 0 THEN 0
    ELSE change_end(shape, side, n - 1) + shape[n].gap + shape[n][side]

changes_of(shape) ==
    [n \in 1..Len(shape) |->
        [before |-> ops_Range(change_end(shape, "del", n) - shape[n].del,
                              change_end(shape, "del", n)),
         after |-> ops_Range(change_end(shape, "ins", n) - shape[n].ins,
                             change_end(shape, "ins", n))]]

\* the interned tokens of one side: token 0 for an unchanged element, token
\* 1 for a deleted and token 2 for an inserted one
tokens_of(shape, side, rest) ==
    [p \in 1..(change_end(shape, side, Len(shape)) + rest) |->
        IF \E n \in 1..Len(shape) :
              /\ change_end(shape, side, n) - shape[n][side] < p
              /\ p <= change_end(shape, side, n)
        THEN (IF side = "del" THEN 1 ELSE 2)
        ELSE 0]

\* &tokens[r]: the slice, or no slice when r is not a range of tokens
index_ok(tokens, r) == r.start <= r.end /\ r.end <= Len(tokens)
tokens_at(tokens, r) == SubSeq(tokens, r.start + 1, r.end)

\* crate::range::Range::new(base, r): the view of r in base
Range_over(r) == Range_new(r.start, r.end - r.start)

\* the state of a builder after one more change
builder_state(pb, pa, dst, err) ==
    [prev_before |-> pb, prev_after |-> pa, dst |-> dst, panic |-> err]

\* the closure `sink` of diff, diff/histogram.rs lines 12-41
histogram_sink(bs, before, after) ==
    LET unchanged_before_range == ops_Range(bs.prev_before.end, before.start)
        hunk_before_range == ops_Range(before.start, before.end)
        unchanged_after_range == ops_Range(bs.prev_after.end, after.start)
        hunk_after_range == ops_Range(after.start, after.end)
    IN  IF \/ ~index_ok(a_ids, unchanged_before_range)
           \/ ~index_ok(a_ids, hunk_before_range)
           \/ ~index_ok(b_ids, unchanged_after_range)
           \/ ~index_ok(b_ids, hunk_after_range)
        THEN [bs EXCEPT !.panic = "slice"]
        ELSE
        LET unchanged_before == tokens_at(a_ids, unchanged_before_range)
            hunk_before == tokens_at(a_ids, hunk_before_range)
            unchanged_after == tokens_at(b_ids, unchanged_after_range)
            hunk_after == tokens_at(b_ids, hunk_after_range)
        IN  IF unchanged_before # <<>> \/ unchanged_after # <<>>
            THEN IF ~(unchanged_before # <<>> /\ unchanged_after # <<>>)
                 THEN [bs EXCEPT !.panic = "debug_assert"]
                 ELSE builder_state(before, after,
                          Append(bs.dst, Equal(Range_over(unchanged_before_range),
                                               Range_over(unchanged_after_range))),
                          "")
            ELSE builder_state(before, after,
                     bs.dst
                       \o (IF hunk_before # <<>>
                           THEN <<Delete(Range_over(hunk_before_range))>>
                           ELSE <<>>)
                       \o (IF hunk_after # <<>>
                           THEN <<Insert(Range_over(hunk_after_range))>>
                           ELSE <<>>),
                     "")

\* DiffyDiffRangeBuilder::process_change, diff/histogram/diffy_diff_range.rs
\* lines 33-83.  The view of an Insert is taken in the rest of after from
\* the start of the change: its offset in after is twice that start.
range_builder_process_change(bs, before, after) ==
    LET unchanged_before_range == ops_Range(bs.prev_before.end, before.start)
        hunk_before_range == ops_Range(before.start, before.end)
        unchanged_after_range == ops_Range(bs.prev_after.end, after.start)
        hunk_after_range == ops_Range(after.start, after.end)
    IN  IF \/ ~index_ok(a_ids, unchanged_before_range)
           \/ ~index_ok(a_ids, hunk_before_range)
           \/ ~index_ok(b_ids, unchanged_after_range)
           \/ ~index_ok(b_ids, hunk_after_range)
        THEN [bs EXCEPT !.panic = "slice"]
        ELSE
        LET unchanged_before == tokens_at(a_ids, unchanged_before_range)
            hunk_before == tokens_at(a_ids, hunk_before_range)
            unchanged_after == tokens_at(b_ids, unchanged_after_range)
            hunk_after == tokens_at(b_ids, hunk_after_range)
            dst1 == IF unchanged_before # <<>> \/ unchanged_after # <<>>
                    THEN Append(bs.dst,
                                Equal(Range_over(ops_Range(bs.prev_before.end,
                                                           before.start)),
                                      Range_over(unchanged_after_range)))
                    ELSE bs.dst
            dst2 == IF hunk_before # <<>> /\ hunk_after = <<>>
                    THEN Append(dst1, Delete(Range_over(hunk_before_range)))
                    ELSE IF hunk_before = <<>> /\ hunk_after # <<>>
                    THEN Append(dst1,
                                Insert(Range_new(hunk_after_range.start
                                                   + hunk_after_range.start,
                                                 hunk_after_range.end
                                                   - hunk_after_range.start)))
                    ELSE dst1
        IN  IF (unchanged_before # <<>> \/ unchanged_after # <<>>)
               /\ unchanged_before # unchanged_after
            THEN [bs EXCEPT !.panic = "debug_assert"]
            ELSE builder_state(before, after, dst2, "")

\* a mutant of sink_process_change: a change that deletes and inserts
\* pushes its Insert before its Delete
sink_process_change_insert_first(bs, before, after) ==
    LET unchanged_before_range == ops_Range(bs.prev_before.end, before.start)
        hunk_before_range == ops_Range(before.start, before.end)
        unchanged_after_range == ops_Range(bs.prev_after.end, after.start)
        hunk_after_range == ops_Range(after.start, after.end)
    IN  builder_state(before, after,
            bs.dst
              \o (IF ~is_empty(unchanged_before_range)
                     \/ ~is_empty(unchanged_after_range)
                  THEN <<Equal(Range_over(unchanged_before_range),
                               Range_over(unchanged_after_range))>>
                  ELSE <<>>)
              \o (IF ~is_empty(hunk_after_range)
                  THEN <<Insert(Range_over(hunk_after_range))>>
                  ELSE <<>>)
              \o (IF ~is_empty(hunk_before_range)
                  THEN <<Delete(Range_over(hunk_before_range))>>
                  ELSE <<>>),
            "")

\* DiffyDiffRangeBuilder::process_change, sink.rs lines 47-74; the builder
\* keeps the ends of the last change only
sink_process_change(bs, before, after) ==
    LET unchanged_before_range == ops_Range(bs.prev_before.end, before.start)
        hunk_before_range == ops_Range(before.start, before.end)
        unchanged_after_range == ops_Range(bs.prev_after.end, after.start)
        hunk_after_range == ops_Range(after.start, after.end)
    IN  builder_state(before, after,
            bs.dst
              \o (IF ~is_empty(unchanged_before_range)
                     \/ ~is_empty(unchanged_after_range)
                  THEN <<Equal(Range_over(unchanged_before_range),
                               Range_over(unchanged_after_range))>>
                  ELSE <<>>)
              \o (IF ~is_empty(hunk_before_range)
                  THEN <<Delete(Range_over(hunk_before_range))>>
                  ELSE <<>>)
              \o (IF ~is_empty(hunk_after_range)
                  THEN <<Insert(Range_over(hunk_after_range))>>
                  ELSE <<>>),
            "")

\* DiffyDiffRangeBuilder::finish, sink.rs lines 76-88
sink_finish(bs) ==
    LET before_till_end == ops_Range(bs.prev_before.end, Len(a_ids))
        after_till_end == ops_Range(bs.prev_after.end, Len(b_ids))
    IN  IF ~is_empty(before_till_end) \/ ~is_empty(after_till_end)
        THEN Append(bs.dst, Equal(Range_over(before_till_end),
                                  Range_over(after_till_end)))
        ELSE bs.dst

\* a builder has been made for the token sequences of a sequence of changes
InitBuilder(kinds) ==
    /\ \E shape \in ChangeShapes, rest \in ChangeLens :
         /\ changes = changes_of(shape)
         /\ a_ids = tokens_of(shape, "del", rest)
         /\ b_ids = tokens_of(shape, "ins", rest)
    /\ entry \in kinds
    /\ pc = "sink"
    /\ reported = 0
    /\ prev_before = ops_Range(0, 0)
    /\ prev_after = ops_Range(0, 0)
    /\ solution = <<>>
    /\ old = <<>>
    /\ new = <<>>
    /\ classifier = Classifier_default
    /\ stack = <<>>
    /\ vf = V_new(0)
    /\ vb = V_new(0)
    /\ stale = FALSE
    /\ divides = <<>>
    /\ panic = ""
    /\ result = <<>>
    /\ edit_script = <<>>
    /\ context_len = 0
    /\ hunks = <<>>

\* the next change the engine reports
next_before == changes[reported + 1].before
next_after == changes[reported + 1].after

\* the builder is left in state bs by the change reported to it
ChangeReported(bs) ==
    /\ prev_before' = bs.prev_before
    /\ prev_after' = bs.prev_after
    /\ solution' = bs.dst
    /\ panic' = bs.panic
    /\ pc' = IF bs.panic # "" THEN "aborted" ELSE pc
    /\ reported' = reported + 1
    /\ UNCHANGED <<old, new, entry, classifier, a_ids, b_ids, stack, vf, vb, stale,
                   divides, result, edit_script, context_len, hunks, changes>>

\* the script is returned as it is
Returned_as_is ==
    /\ pc' = "finished"
    /\ UNCHANGED <<sink_vars, old, new, entry, classifier, a_ids, b_ids, stack, solution,
                   vf, vb, stale, divides, panic, result, edit_script, context_len,
                   hunks>>

\* the engine reports a change to the closure of diff, diff/histogram.rs
HistogramSink ==
    /\ pc = "sink"
    /\ entry = "histogram::diff"
    /\ reported < Len(changes)
    /\ ChangeReported(histogram_sink(
           builder_state(prev_before, prev_after, solution, ""),
           next_before, next_after))

\* imara_diff::diff returned, diff/histogram.rs lines 43-45
HistogramReturn ==
    /\ pc = "sink"
    /\ entry = "histogram::diff"
    /\ reported = Len(changes)
    /\ Returned_as_is

\* the engine reports a change to the builder of diffy_diff_range.rs
RangeBuilderProcessChange ==
    /\ pc = "sink"
    /\ entry = "histogram::DiffyDiffRangeBuilder"
    /\ reported < Len(changes)
    /\ ChangeReported(range_builder_process_change(
           builder_state(prev_before, prev_after, solution, ""),
           next_before, next_after))

\* DiffyDiffRangeBuilder::finish, diff/histogram/diffy_diff_range.rs lines 85-87
RangeBuilderFinish ==
    /\ pc = "sink"
    /\ entry = "histogram::DiffyDiffRangeBuilder"
    /\ reported = Len(changes)
    /\ Returned_as_is

NextHistogram ==
    \/ HistogramSink
    \/ HistogramReturn
    \/ RangeBuilderProcessChange
    \/ RangeBuilderFinish

SpecHistogram ==
    InitBuilder({"histogram::diff", "histogram::DiffyDiffRangeBuilder"})
      /\ [][NextHistogram]_vars

\* the engine reports a change to the builder of sink.rs
SinkProcessChange ==
    /\ pc = "sink"
    /\ entry = "sink::DiffyDiffRangeBuilder"
    /\ reported < Len(changes)
    /\ ChangeReported(sink_process_change(
           builder_state(prev_before, prev_after, solution, ""),
           next_before, next_after))

\* the engine calls finish of the builder of sink.rs
SinkFinish ==
    /\ pc = "sink"
    /\ entry = "sink::DiffyDiffRangeBuilder"
    /\ reported = Len(changes)
    /\ solution' = sink_finish(builder_state(prev_before, prev_after, solution, ""))
    /\ pc' = "finished"
    /\ UNCHANGED <<sink_vars, old, new, entry, classifier, a_ids, b_ids, stack, vf, vb,
                   stale, divides, panic, result, edit_script, context_len, hunks>>

NextSink ==
    \/ SinkProcessChange
    \/ SinkFinish

SpecSink == InitBuilder({"sink::DiffyDiffRangeBuilder"}) /\ [][NextSink]_vars

(***************************************************************************)
(* Properties.                                                             *)
(***************************************************************************)
\* do_diff has just returned: solution is the script of the two inputs, and
\* no later step changes it
Returned == pc \in {"done", "lines"}

UnitsWith(tags) == SelectSeq(solution, LAMBDA u : u.tag \in tags)
OldViews == [i \in 1..Len(UnitsWith({"Equal", "Delete"})) |->
                UnitsWith({"Equal", "Delete"})[i].old]
NewViews == [i \in 1..Len(UnitsWith({"Equal", "Insert"})) |->
                UnitsWith({"Equal", "Insert"})[i].new]

\* the views rs, in order, cover 0..n without a gap and without an overlap
Tiles(rs, n) ==
    /\ rs = <<>> => n = 0
    /\ rs # <<>> => rs[1].off = 0 /\ rs[Len(rs)].off + rs[Len(rs)].len = n
    /\ \A i \in 1..(Len(rs) - 1) : rs[i].off + rs[i].len = rs[i + 1].off
    /\ \A i \in 1..Len(rs) : rs[i].len >= 0

\* the content unit i of result carries is what its views show of the inputs
CarriesViews(i) ==
    /\ result[i].tag = solution[i].tag
    /\ result[i].tag \in {"Equal", "Delete"}
         => result[i].content = SubSeq(old, solution[i].old.off + 1,
                                       solution[i].old.off + solution[i].old.len)
    /\ result[i].tag \in {"Equal", "Insert"}
         => result[i].content = SubSeq(new, solution[i].new.off + 1,
                                       solution[i].new.off + solution[i].new.len)

\* C1 (reconstruction): in the returned script the old-side views of the
\* Equal and Delete units tile old in script order and the new-side views of
\* the Equal and Insert units tile new, and the content every unit of the
\* result of diff carries is the content of old (Equal, Delete) and of new
\* (Equal, Insert) at its views, so the concatenations are old and new.
Reconstruction ==
    Returned =>
        /\ Tiles(OldViews, Len(a_ids))
        /\ Tiles(NewViews, Len(b_ids))
        /\ pc = "done" =>
             /\ Len(result) = Len(solution)
             /\ \A i \in 1..Len(result) : CarriesViews(i)

\* a script with all three kinds of unit, built with a divide step
ReconstructionWitness ==
    /\ pc = "done"
    /\ divides # <<>>
    /\ \A t \in {"Equal", "Delete", "Insert"} :
         \E i \in 1..Len(solution) : solution[i].tag = t /\ solution[i].old.len
                                       + solution[i].new.len > 0

\* the largest element of a non-empty set of numbers
MaxOf(S) == CHOOSE x \in S : \A y \in S : y <= x

\* the row after prev in the table of the lengths of the longest common
\* subsequences, for the element x of a.  Entry j + 1 of a row is the length
\* for the first j elements of b: the largest of prev's entries for jj <= j
\* and, where x = b[jj], of prev's entry for jj - 1 plus one.
lcs_next_row(prev, x, b) ==
    [j1 \in 1..(Len(b) + 1) |->
        MaxOf({0} \cup {prev[jj + 1] : jj \in 1..(j1 - 1)}
                  \cup {prev[jj] + 1 : jj \in {q \in 1..(j1 - 1) : x = b[q]}})]

\* row i of that table, for the first i elements of a (\o <<>> makes the
\* row a tuple, whose entries are computed once)
RECURSIVE lcs_row(_, _, _)
lcs_row(a, b, i) ==
    IF i = 0
    THEN [j1 \in 1..(Len(b) + 1) |-> 0]
    ELSE lcs_next_row(lcs_row(a, b, i - 1) \o <<>>, a[i], b)

LCS(a, b) == lcs_row(a, b, Len(a))[Len(b) + 1]

\* the number of elements the Delete and Insert units of the script carry
EditCount ==
    Cardinality({p \in (1..Len(solution)) \X (1..(Len(a_ids) + Len(b_ids))) :
                   /\ solution[p[1]].tag # "Equal"
                   /\ p[2] <= solution[p[1]].old.len + solution[p[1]].new.len})

\* C2 (minimality): the number of elements carried by the Delete and Insert
\* units of the returned script is the edit distance N + M - 2 * LCS(old, new).
Minimality ==
    Returned => EditCount = Len(a_ids) + Len(b_ids) - 2 * LCS(a_ids, b_ids)

\* a script of at least three edits around a common subsequence, found with
\* two or more divide steps
MinimalityWitness ==
    /\ pc = "done"
    /\ Len(divides) >= 2
    /\ EditCount >= 3
    /\ LCS(a_ids, b_ids) >= 2

\* C3 (identity), as the spec states it: diff(x, x) is the single unit
\* Equal(x), here for every non-empty x.
Identity ==
    (pc = "done" /\ old = new /\ old # <<>>)
        => result = <<[tag |-> "Equal", content |-> old]>>

\* C4: every Equal unit of the returned script pairs an old view and a new
\* view of the same length whose elements are pairwise equal.
EqualUnitsEqual ==
    Returned =>
        \A i \in 1..Len(solution) :
            solution[i].tag = "Equal" =>
                /\ solution[i].old.len = solution[i].new.len
                /\ as_slice(a_ids, solution[i].old) = as_slice(b_ids, solution[i].new)

\* a script with an Equal unit of a common prefix and one of a common suffix
\* pushed after a divide step, at different offsets of old and new
EqualUnitsWitness ==
    /\ Returned
    /\ divides # <<>>
    /\ \E i, j \in 1..Len(solution) :
         /\ i < j
         /\ solution[i].tag = "Equal" /\ solution[j].tag = "Equal"
         /\ solution[j].old.off # solution[j].new.off
         /\ solution[j].old.len >= 1

\* the lines of hunk h with one of the tags, in order, without the tags
LinesWith(h, tags) ==
    LET sel == SelectSeq(h.lines, LAMBDA l : l.tag \in tags)
    IN  [i \in 1..Len(sel) |-> sel[i].line]

\* the 0-based index of the first line a range descriptor covers
SpanStart(r) == IF r.len > 0 THEN r.start - 1 ELSE r.start

\* the lines ls are the lines of text at the span the descriptor r claims
Covers(r, ls, text) ==
    /\ r.len = Len(ls)
    /\ SpanStart(r) >= 0
    /\ SpanStart(r) + r.len <= Len(text)
    /\ \A i \in 1..Len(ls) : ls[i] = text[SpanStart(r) + i]

\* C5 (hunk coverage): in every hunk of to_patch(C) the Context and Delete
\* lines, in order, are the old lines at the span of its old range
\* descriptor, and the Context and Insert lines are the new lines at the
\* span of its new range descriptor; the descriptor lengths are the numbers
\* of those lines.
HunkCoverage ==
    pc = "patched" =>
        \A i \in 1..Len(hunks) :
            /\ Covers(hunks[i].old_range,
                      LinesWith(hunks[i], {"Context", "Delete"}), old)
            /\ Covers(hunks[i].new_range,
                      LinesWith(hunks[i], {"Context", "Insert"}), new)

\* a hunk of two merged regions with context, deleted and inserted lines,
\* cut by the end of a text
HunkCoverageWitness ==
    /\ pc = "patched"
    /\ context_len >= 2
    /\ \E i \in 1..Len(hunks) :
         /\ hunks[i].first < hunks[i].last
         /\ \A t \in {"Context", "Delete", "Insert"} :
              \E j \in 1..Len(hunks[i].lines) : hunks[i].lines[j].tag = t
         /\ SpanStart(hunks[i].old_range) + hunks[i].old_range.len = Len(old)

\* the number of unchanged lines between regions i and i + 1
Gap(i) == edit_script[i + 1].old.start - edit_script[i].old.end

\* regions i and i + 1 of the edit script are in the same hunk
SameHunk(i) ==
    \E j \in 1..Len(hunks) : hunks[j].first + 1 <= i /\ i + 1 <= hunks[j].last + 1

\* C6 (hunk merge threshold), as the spec states it: two consecutive regions
\* with a gap of g lines share a hunk when g <= 2C and do not when g > 2C.
MergeThresholdAsStated ==
    pc = "patched" =>
        \A i \in 1..(Len(edit_script) - 1) :
            SameHunk(i) <=> Gap(i) <= 2 * context_len

\* C6, amended: two consecutive regions with a gap of g lines share a hunk
\* when g < 2C and do not when g > 2C; when g = 2C they share a hunk only if
\* the second region starts at the end of old.
MergeThreshold ==
    pc = "patched" =>
        \A i \in 1..(Len(edit_script) - 1) :
            SameHunk(i) <=>
                \/ Gap(i) < 2 * context_len
                \/ /\ Gap(i) = 2 * context_len
                   /\ edit_script[i + 1].old.start = Len(old)

\* two regions with a gap of exactly 2C > 0 lines, in two hunks
MergeThresholdWitness ==
    /\ pc = "patched"
    /\ context_len >= 1
    /\ \E i \in 1..(Len(edit_script) - 1) :
         Gap(i) = 2 * context_len /\ ~SameHunk(i)

\* C7: the hunks of to_patch(C) are ordered and do not overlap: the span of
\* a hunk ends at or before the start of the span of the next one, on the
\* old side and on the new side.
HunksOrdered ==
    pc = "patched" =>
        \A i \in 1..(Len(hunks) - 1) :
            /\ SpanStart(hunks[i].old_range) + hunks[i].old_range.len
                 <= SpanStart(hunks[i + 1].old_range)
            /\ SpanStart(hunks[i].new_range) + hunks[i].new_range.len
                 <= SpanStart(hunks[i + 1].new_range)

\* two hunks with context, the second starting where the first ends
HunksOrderedWitness ==
    /\ pc = "patched"
    /\ context_len >= 1
    /\ Len(hunks) >= 2
    /\ SpanStart(hunks[1].old_range) + hunks[1].old_range.len
         = SpanStart(hunks[2].old_range)
    /\ hunks[2].old_range.len >= 2

\* the start a descriptor reports for a span of n lines from 0-based index p
Reported(p, n) == IF n > 0 THEN p + 1 ELSE p

\* C8 (range descriptor convention): a hunk's span starts C lines, or as
\* many as there are, before its first region and is as long as the hunk has
\* lines of that side; the descriptor reports the 0-based start plus one
\* when the span is not empty and the 0-based start itself when it is, as in
\* -1,2 +0,0 and -11,0 +11,3 of the sample texts with C = 0.
DescriptorConvention ==
    pc = "patched" =>
        /\ \A i \in 1..Len(hunks) :
             LET r == edit_script[hunks[i].first + 1]
                 n1 == Len(LinesWith(hunks[i], {"Context", "Delete"}))
                 n2 == Len(LinesWith(hunks[i], {"Context", "Insert"}))
             IN  /\ hunks[i].old_range =
                      [start |-> Reported(saturating_sub(r.old.start,
                                                         context_len), n1),
                       len |-> n1]
                 /\ hunks[i].new_range =
                      [start |-> Reported(saturating_sub(r.new.start,
                                                         context_len), n2),
                       len |-> n2]
        /\ (old = Lao /\ new = Tzu /\ context_len = 0) =>
             /\ Len(hunks) = 3
             /\ hunks[1].old_range = [start |-> 1, len |-> 2]
             /\ hunks[1].new_range = [start |-> 0, len |-> 0]
             /\ hunks[3].old_range = [start |-> 11, len |-> 0]
             /\ hunks[3].new_range = [start |-> 11, len |-> 3]

\* a patch with a hunk whose old span is empty and whose new span is not,
\* away from the start of the texts
DescriptorConventionWitness ==
    /\ pc = "patched"
    /\ \E i \in 1..Len(hunks) :
         /\ hunks[i].old_range.len = 0
         /\ hunks[i].old_range.start > 0
         /\ hunks[i].new_range.len > 0

\* C9 (scenario 1): diff("ABCABBA", "CBABAC") is Delete("AB"), Equal("C"),
\* Delete("A"), Equal("B"), Insert("A"), Equal("BA"), Insert("C").
Scenario1 ==
    (pc = "done" /\ old = Scenario1Old /\ new = Scenario1New) =>
        result = <<[tag |-> "Delete", content |-> <<1, 2>>],
                   [tag |-> "Equal", content |-> <<3>>],
                   [tag |-> "Delete", content |-> <<1>>],
                   [tag |-> "Equal", content |-> <<2>>],
                   [tag |-> "Insert", content |-> <<1>>],
                   [tag |-> "Equal", content |-> <<2, 1>>],
                   [tag |-> "Insert", content |-> <<3>>]>>

\* diff has returned for the inputs of scenario 1
Scenario1Witness ==
    pc = "done" /\ old = Scenario1Old /\ new = Scenario1New /\ Len(result) = 7

\* the tags of the lines of hunk h
Tags(h) == [i \in 1..Len(h.lines) |-> h.lines[i].tag]

\* C10 (scenario 4): for the sample texts the change regions are old 0..2 /
\* new 0..0, old 3..4 / new 1..3 and old 11..11 / new 10..13, and
\* to_patch(3) is two hunks, -1,7 +1,6 with the first two regions and
\* -9,3 +8,6, with the tags of the expected patch.
Scenario4 ==
    (pc = "patched" /\ old = Lao /\ new = Tzu /\ context_len = 3) =>
        /\ edit_script = <<EditRange_new(0, 2, 0, 0), EditRange_new(3, 4, 1, 3),
                           EditRange_new(11, 11, 10, 13)>>
        /\ Len(hunks) = 2
        /\ hunks[1].old_range = [start |-> 1, len |-> 7]
        /\ hunks[1].new_range = [start |-> 1, len |-> 6]
        /\ Tags(hunks[1]) = <<"Delete", "Delete", "Context", "Delete", "Insert",
                              "Insert", "Context", "Context", "Context">>
        /\ hunks[1].first = 0 /\ hunks[1].last = 1
        /\ hunks[2].old_range = [start |-> 9, len |-> 3]
        /\ hunks[2].new_range = [start |-> 8, len |-> 6]
        /\ Tags(hunks[2]) = <<"Context", "Context", "Context", "Insert",
                              "Insert", "Insert">>

\* to_patch(3) has returned for the sample texts
Scenario4Witness ==
    pc = "patched" /\ old = Lao /\ new = Tzu /\ context_len = 3 /\ hunks # <<>>

\* C11 (scenario 3): diff("abc", "def"), two strings without a common
\* element, is Insert("def"), Delete("abc"), in that order.
Scenario5 ==
    (pc = "done" /\ old = Scenario5Old /\ new = Scenario5New) =>
        result = <<[tag |-> "Insert", content |-> Scenario5New],
                   [tag |-> "Delete", content |-> Scenario5Old]>>

\* diff_str has returned for "abc" and "def" after one divide step
Scenario5Witness ==
    /\ pc = "done" /\ entry = "diff_str"
    /\ old = Scenario5Old /\ new = Scenario5New
    /\ Len(divides) = 1 /\ Len(result) = 2

\* C12 (scenario 2): diff("bat", "map") is Insert("m"), Delete("b"),
\* Equal("a"), Insert("p"), Delete("t"), from the entry point diff and from
\* the entry point diff_str alike.
Scenario2 ==
    (pc = "done" /\ old = Scenario2Old /\ new = Scenario2New) =>
        /\ entry \in {"diff", "diff_str"}
        /\ result = <<[tag |-> "Insert", content |-> <<13>>],
                      [tag |-> "Delete", content |-> <<2>>],
                      [tag |-> "Equal", content |-> <<1>>],
                      [tag |-> "Insert", content |-> <<16>>],
                      [tag |-> "Delete", content |-> <<20>>]>>

\* diff_str has returned for "bat" and "map"
Scenario2Witness ==
    /\ pc = "done" /\ entry = "diff_str"
    /\ old = Scenario2Old /\ new = Scenario2New
    /\ Len(result) = 5

\* the number of elements of one side that the units of solution view
cursor_end(side) ==
    IF solution = <<>> THEN 0
    ELSE LET views == IF side = "old" THEN OldViews ELSE NewViews
         IN  IF views = <<>> THEN 0
             ELSE views[Len(views)].off + views[Len(views)].len

Rounds(i) == (divides[i].dist + 1) \div 2 + 1

\* C14 (no abort): every search of the driver, at the top level and in the
\* recursive calls, meets within d_max iterations of its loop over d:
\* neither the size assertions on vf and vb nor the unreachable! statement
\* is hit.
NoAbort ==
    /\ panic \notin {"assert", "unreachable"}
    /\ \A i \in 1..Len(divides) :
         /\ divides[i].old.len > 0 /\ divides[i].new.len > 0
         /\ V_len(vf) >= max_d(divides[i].old.len, divides[i].new.len)
         /\ V_len(vb) >= max_d(divides[i].old.len, divides[i].new.len)
         /\ Rounds(i) <= max_d(divides[i].old.len, divides[i].new.len)

\* the driver has returned after a search in a recursive call and a search
\* that met in the last iteration of its budget
NoAbortWitness ==
    /\ pc \in {"done", "lines"}
    /\ Len(divides) >= 2
    /\ \E i \in 1..Len(divides) :
         Rounds(i) = max_d(divides[i].old.len, divides[i].new.len)

\* the combined length of the two views of a pending call
Size(frame) == frame.old.len + frame.new.len

\* a divide step pushes two calls, each on a problem of a smaller combined
\* length than the problem it divided
Shrinks ==
    Len(divides') > Len(divides) =>
        /\ Len(stack') >= 2
        /\ stack'[1].kind = "conquer" /\ stack'[2].kind = "conquer"
        /\ Size(stack'[1]) < Size(divides'[Len(divides')])
        /\ Size(stack'[2]) < Size(divides'[Len(divides')])
        /\ Size(stack'[1]) + Size(stack'[2]) = Size(divides'[Len(divides')])

\* the work the pending calls of a stack can still cause: a call on a
\* problem of size s weighs 2 s^2 + 1, a deferred push weighs 1
RECURSIVE Weight(_)
Weight(st) ==
    IF st = <<>> THEN 0
    ELSE Weight(Tail(st))
           + (IF Head(st).kind = "conquer"
              THEN 2 * Size(Head(st)) * Size(Head(st)) + 1
              ELSE 1)

\* a bound on the number of steps a running call takes before it returns
Rank ==
    IF pc = "classify"
    THEN (Len(old) - Len(a_ids)) + (Len(new) - Len(b_ids)) + 2
           + 2 * (Len(old) + Len(new)) * (Len(old) + Len(new)) + 1
    ELSE IF pc = "conquer"
    THEN 1 + Weight(stack)
    ELSE 0

\* a running call can take a step
CanStep ==
    /\ pc = "classify" =>
          /\ Len(a_ids) <= Len(old)
          /\ Len(b_ids) <= Len(new)
    /\ pc = "conquer" =>
          \/ stack # <<>> /\ Head(stack).kind \in {"conquer", "suffix"}
          \/ stack = <<>> /\ entry \in {"diff", "diff_str", "diff_str_lines"}

\* C15 (termination): every divide step of the driver recurses on two
\* problems of a strictly smaller combined length than the one it divides
\* (the snake starts neither at (0, 0) nor at (N, M)); a running call can
\* always take a step, and every step it takes lowers Rank, which is never
\* negative: the call returns.
Termination ==
    /\ [](CanStep /\ Rank >= 0)
    /\ [][/\ Shrinks
          /\ pc \in {"classify", "conquer"} => Rank' < Rank]_vars

\* the driver has returned after three or more divide steps, one of them
\* on a problem left by an earlier one
TerminationWitness ==
    /\ pc \in {"done", "lines"}
    /\ Len(divides) >= 3
    /\ \E i, j \in 1..Len(divides) :
         i < j /\ Size(divides[j]) < Size(divides[i]) /\ Size(divides[j]) >= 3

\* C16, as the spec states it: the script a histogram builder returns for
\* a valid sequence of changes tiles both token sequences: the old views of
\* its Equal and Delete units tile before, the new views of its Equal and
\* Insert units tile after.
HistogramTiles ==
    (pc = "finished"
       /\ entry \in {"histogram::diff", "histogram::DiffyDiffRangeBuilder"}) =>
        /\ Tiles(OldViews, Len(a_ids))
        /\ Tiles(NewViews, Len(b_ids))

\* the units of the changes after the first k of them, in the order the
\* claim gives: the gap, the before range, the after range
RECURSIVE ExpectedFrom(_, _, _)
ExpectedFrom(k, pb, pa) ==
    IF k > Len(changes)
    THEN IF pb < Len(a_ids) \/ pa < Len(b_ids)
         THEN <<Equal(Range_new(pb, Len(a_ids) - pb), Range_new(pa, Len(b_ids) - pa))>>
         ELSE <<>>
    ELSE LET c == changes[k]
         IN  (IF pb < c.before.start \/ pa < c.after.start
              THEN <<Equal(Range_new(pb, c.before.start - pb),
                           Range_new(pa, c.after.start - pa))>>
              ELSE <<>>)
             \o (IF c.before.start < c.before.end
                 THEN <<Delete(Range_new(c.before.start,
                                         c.before.end - c.before.start))>>
                 ELSE <<>>)
             \o (IF c.after.start < c.after.end
                 THEN <<Insert(Range_new(c.after.start,
                                         c.after.end - c.after.start))>>
                 ELSE <<>>)
             \o ExpectedFrom(k + 1, c.before.end, c.after.end)

\* C17: what the builder of sink.rs returns from finish is, for each change
\* in order, an Equal unit of the gap since the previous change if the gap
\* is not empty, a Delete of its before range if that is not empty and an
\* Insert of its after range if that is not empty, and then an Equal unit
\* of what follows the last change if that is not empty; it is empty for no
\* changes and empty inputs, and it tiles both token sequences.
SinkOutput ==
    (pc = "finished" /\ entry = "sink::DiffyDiffRangeBuilder") =>
        /\ solution = ExpectedFrom(1, 0, 0)
        /\ (changes = <<>> /\ a_ids = <<>> /\ b_ids = <<>>) => solution = <<>>
        /\ Tiles(OldViews, Len(a_ids))
        /\ Tiles(NewViews, Len(b_ids))

\* finish has returned Equal, Delete, Insert, Equal, ..., Equal for two
\* changes with a gap in front of each and a rest after the last
SinkOutputWitness ==
    /\ pc = "finished" /\ entry = "sink::DiffyDiffRangeBuilder"
    /\ Len(changes) = 2
    /\ Len(solution) >= 6
    /\ solution[1].tag = "Equal" /\ solution[2].tag = "Delete"
    /\ solution[3].tag = "Insert"
    /\ solution[Len(solution)].tag = "Equal"

\* the lines classified so far, old lines first, and the ids they were given
ClassifiedLines == SubSeq(old, 1, Len(a_ids)) \o SubSeq(new, 1, Len(b_ids))
ClassifiedIds == a_ids \o b_ids

\* C18 (line classifier): within one call of diff_str_lines the ids are
\* 0, 1, 2, ... in the order in which the contents are first seen, over the
\* old lines followed by the new lines: a line gets the number of distinct
\* contents seen before its content was first seen, so two lines, of either
\* text, get the same id if and only if their contents are equal.
ClassifierDense ==
    entry = "diff_str_lines" =>
        /\ Len(ClassifiedIds) = Len(ClassifiedLines)
        /\ pc # "classify" => Len(a_ids) = Len(old) /\ Len(b_ids) = Len(new)
        /\ \A i, j \in 1..Len(ClassifiedIds) :
             ClassifiedIds[i] = ClassifiedIds[j]
               <=> ClassifiedLines[i] = ClassifiedLines[j]
        /\ \A i \in 1..Len(ClassifiedIds) :
             LET first == CHOOSE j \in 1..i :
                            /\ ClassifiedLines[j] = ClassifiedLines[i]
                            /\ \A k \in 1..(j - 1) :
                                 ClassifiedLines[k] # ClassifiedLines[i]
             IN  ClassifiedIds[i] =
                   Cardinality({ClassifiedLines[k] : k \in 1..(first - 1)})

\* diff_str_lines has classified an old text with a repeated line and a new
\* text with a line of old and a line not seen before
ClassifierDenseWitness ==
    /\ entry = "diff_str_lines"
    /\ pc = "lines"
    /\ \E i, k \in 1..Len(a_ids) : i < k /\ a_ids[i] = a_ids[k]
    /\ \E i \in 1..Len(a_ids), j \in 1..Len(b_ids) : a_ids[i] = b_ids[j]
    /\ \E j \in 1..Len(b_ids) : \A i \in 1..Len(a_ids) : a_ids[i] < b_ids[j]

(***************************************************************************)
(* find_middle_snake called on its own, as tests::diff_test1 calls it: on  *)
(* two whole non-empty sequences, with vf and vb fresh from                *)
(* V::new(max_d(N, M)).                                                    *)
(***************************************************************************)
NonEmptyInputs == {io \in Inputs : io[1] # <<>> /\ io[2] # <<>>}

InitSnake ==
    /\ \E io \in NonEmptyInputs :
         /\ old = io[1] /\ new = io[2]
         /\ a_ids = io[1] /\ b_ids = io[2]
         /\ vf = V_new(max_d(Len(io[1]), Len(io[2])))
         /\ vb = V_new(max_d(Len(io[1]), Len(io[2])))
    /\ entry = "find_middle_snake"
    /\ classifier = Classifier_default
    /\ pc = "snake"
    /\ stack = <<>>
    /\ solution = <<>>
    /\ stale = FALSE
    /\ divides = <<>>
    /\ panic = ""
    /\ result = <<>>
    /\ edit_script = <<>>
    /\ context_len = 0
    /\ hunks = <<>>
    /\ changes = <<>>
    /\ reported = 0
    /\ prev_before = ops_Range(0, 0)
    /\ prev_after = ops_Range(0, 0)

\* Myers::find_middle_snake(a, b, &mut vf, &mut vb), line 612
FindMiddleSnake ==
    /\ pc = "snake"
    /\ LET ra == Range_new(0, Len(a_ids))
           rb == Range_new(0, Len(b_ids))
           st == find_middle_snake(a_ids, ra, b_ids, rb, vf, vb)
       IN  /\ vf' = st.vf
           /\ vb' = st.vb
           /\ stale' = st.stale
           /\ panic' = st.panic
           /\ pc' = IF st.panic # "" THEN "aborted" ELSE "found"
           /\ divides' = IF st.panic # ""
                         THEN divides
                         ELSE <<[old |-> ra, new |-> rb,
                                 dist |-> st.dist, snake |-> st.snake]>>
    /\ UNCHANGED <<sink_vars, old, new, entry, classifier, a_ids, b_ids, stack,
                   solution, result, edit_script, context_len, hunks>>

NextSnake == FindMiddleSnake

SpecSnake == InitSnake /\ [][NextSnake]_vars

\* the elements of s after the first n
Drop(s, n) == SubSeq(s, n + 1, Len(s))

\* the snake of divide step i runs inside the two views
SnakeInside(i) ==
    LET s == divides[i].snake
    IN  /\ 0 <= s.x_start /\ s.x_start <= s.x_end
        /\ s.x_end <= divides[i].old.len
        /\ 0 <= s.y_start /\ s.y_start <= s.y_end
        /\ s.y_end <= divides[i].new.len

\* an optimal edit path of the two views of divide step i runs along the
\* snake: a longest common subsequence is made of one of what precedes the
\* snake, the elements of the snake and one of what follows it
OnOptimalPath(i) ==
    LET s == divides[i].snake
        a == as_slice(a_ids, divides[i].old)
        b == as_slice(b_ids, divides[i].new)
    IN  /\ SnakeInside(i)
        /\ s.x_end - s.x_start = s.y_end - s.y_start
        /\ SubSeq(a, s.x_start + 1, s.x_end) = SubSeq(b, s.y_start + 1, s.y_end)
        /\ LCS(SubSeq(a, 1, s.x_start), SubSeq(b, 1, s.y_start))
              + (s.x_end - s.x_start)
              + LCS(Drop(a, s.x_end), Drop(b, s.y_end)) = LCS(a, b)

\* C19 (middle snake): for non-empty old and new of lengths N and M,
\* find_middle_snake returns, and the edit distance it returns is the length
\* N + M - 2 * LCS(old, new) of a shortest script of insertions and
\* deletions, and the snake it returns lies on an optimal edit path.
SnakeOptimal ==
    /\ pc # "aborted"
    /\ pc = "found" => Len(divides) = 1
    /\ \A i \in 1..Len(divides) :
         /\ divides[i].dist =
              divides[i].old.len + divides[i].new.len
                - 2 * LCS(as_slice(a_ids, divides[i].old),
                          as_slice(b_ids, divides[i].new))
         /\ OnOptimalPath(i)

\* a search that returned an odd distance of at least three from the forward
\* check, along a snake of at least one element, over sequences with a
\* common subsequence of two elements
SnakeOptimalWitness ==
    /\ pc = "found"
    /\ divides[1].dist % 2 = 1
    /\ divides[1].dist >= 3
    /\ LCS(a_ids, b_ids) >= 2
    /\ divides[1].snake.x_end > divides[1].snake.x_start

\* C20 (snake validity): every snake find_middle_snake returns to the driver
\* is a diagonal run inside the edit graph of the two views searched:
\* 0 <= x_start <= x_end <= N, 0 <= y_start <= y_end <= M, as long on old
\* as on new, over equal elements.  The subtractions of the backward case
\* never leave usize and the driver's two split_at calls are in range.
SnakeValid ==
    /\ panic \notin {"underflow", "split_at"}
    /\ \A i \in 1..Len(divides) :
         LET s == divides[i].snake
             a == as_slice(a_ids, divides[i].old)
             b == as_slice(b_ids, divides[i].new)
         IN  /\ SnakeInside(i)
             /\ s.x_end - s.x_start = s.y_end - s.y_start
             /\ \A j \in 1..(s.x_end - s.x_start) :
                  a[s.x_start + j] = b[s.y_start + j]

\* the driver has returned after two or more searches, one whose backward
\* check returned a snake of at least one element that starts inside both
\* views, and one that returned an empty snake
SnakeValidWitness ==
    /\ pc = "done"
    /\ Len(divides) >= 2
    /\ \E i \in 1..Len(divides) :
         /\ divides[i].dist % 2 = 0
         /\ divides[i].snake.x_start > 0
         /\ divides[i].snake.y_start > 0
         /\ divides[i].snake.x_end > divides[i].snake.x_start
    /\ \E i \in 1..Len(divides) :
         divides[i].snake.x_end = divides[i].snake.x_start

\* C21 (shared scratch): vf and vb are reused by every recursive call without
\* being cleared, yet every entry a search reads, the neighbours vf[k - 1],
\* vf[k + 1], vb[k - 1], vb[k + 1] and the overlap entries vb[-(k - delta)],
\* vf[-(k - delta)], was written earlier by that same search: never a
\* leftover of another call, never the initial zero fill.
NoStaleRead == ~stale

\* the driver has returned after a recursive search that read neighbour and
\* overlap entries of both arrays, which an earlier search of at least two
\* rounds had written
NoStaleReadWitness ==
    /\ pc = "done"
    /\ Len(divides) >= 3
    /\ divides[1].dist >= 3
    /\ \E i \in 2..Len(divides) : divides[i].dist >= 3
    /\ \E i \in 2..Len(divides) : divides[i].dist = 2

\* the frontier array V is the one V::new(max_d(N, M)) made for the whole
\* inputs: 2 * max_d entries and the bias max_d
SizedOnce(V) ==
    LET md == max_d(Len(a_ids), Len(b_ids))
    IN  V.offset = md /\ DOMAIN V.v = 0..(2 * md - 1)

\* C22 (frontier index bounds): do_diff allocates vf and vb once, with
\* 2 * max_d(N, M) entries and the bias max_d(N, M), and every access vf[k]
\* or vb[k] of every search, at the top level and in the recursive calls,
\* maps to a storage index in 0 .. 2 * max_d - 1: no access is out of range.
FrontierInBounds ==
    /\ panic # "index"
    /\ pc \in {"conquer", "done", "lines", "patched", "aborted"} =>
         SizedOnce(vf) /\ SizedOnce(vb)

\* the driver has returned after a search on the whole inputs that ran its
\* last round, d = max_d - 1, whose diagonals -d and d are the outermost a
\* search visits, and after a recursive search
FrontierInBoundsWitness ==
    /\ pc = "done"
    /\ Len(divides) >= 2
    /\ divides[1].old.len = Len(a_ids)
    /\ divides[1].new.len = Len(b_ids)
    /\ Rounds(1) = max_d(Len(a_ids), Len(b_ids))

\* the index in old of the first line the old range descriptor of hunk h
\* covers: the descriptor counts lines from 1 unless its length is 0
covered_from(h) ==
    IF h.old_range.len > 0 THEN h.old_range.start - 1 ELSE h.old_range.start

\* the Context and Insert lines of hunk h, in order
new_side(h) ==
    LET keep == SelectSeq(h.lines, LAMBDA l : l.tag \in {"Context", "Insert"})
    IN  [j \in 1..Len(keep) |-> keep[j].line]

\* text from its line pos on with the hunks hs[i], hs[i + 1], ... applied:
\* the lines a hunk's old range covers are replaced by its Context and
\* Insert lines, the lines outside the hunks are kept
RECURSIVE apply_hunks(_, _, _, _)
apply_hunks(text, hs, i, pos) ==
    IF i > Len(hs)
    THEN SubSeq(text, pos + 1, Len(text))
    ELSE SubSeq(text, pos + 1, covered_from(hs[i]))
         \o new_side(hs[i])
         \o apply_hunks(text, hs, i + 1,
                        covered_from(hs[i]) + hs[i].old_range.len)

\* C23 (patch round trip): applying the hunks of
\* diff_str_lines(old, new).to_patch(C) to old yields new, for every
\* context length C.
PatchRoundTrip ==
    pc = "patched" => apply_hunks(old, hunks, 1, 0) = new

\* a patch of two or more hunks with context, deletions and insertions,
\* between texts that keep lines outside the hunks
PatchRoundTripWitness ==
    /\ pc = "patched"
    /\ Len(hunks) >= 2
    /\ context_len >= 1
    /\ \A t \in {"Context", "Delete", "Insert"} :
         \E i \in 1..Len(hunks) : \E j \in 1..Len(hunks[i].lines) :
             hunks[i].lines[j].tag = t
    /\ covered_from(hunks[2])
         > covered_from(hunks[1]) + hunks[1].old_range.len

\* hunk h has a Delete or an Insert line
HasChange(h) ==
    \E j \in 1..Len(h.lines) : h.lines[j].tag \in {"Delete", "Insert"}

\* region r of the edit script is not empty on both sides
RegionNonEmpty(r) == r.old.start < r.old.end \/ r.new.start < r.new.end

\* C24 (no empty change): every change region build_edit_script makes of a
\* script of the driver is non-empty on at least one side, every hunk of
\* to_patch has at least one Delete or Insert line, and
\* diff_str_lines(x, x).to_patch(C) has no hunks for every text x and every C.
NoEmptyChange ==
    /\ pc \in {"lines", "patched"} =>
         \A i \in 1..Len(edit_script) : RegionNonEmpty(edit_script[i])
    /\ pc = "patched" =>
         /\ \A i \in 1..Len(hunks) : HasChange(hunks[i])
         /\ old = new => hunks = <<>>

\* C25 (canonical form): in the script Myers::diff or diff_str returns, no
\* two consecutive units carry the same tag.
Canonical ==
    (pc = "done" /\ entry \in {"diff", "diff_str"}) =>
        \A i \in 1..(Len(result) - 1) : result[i].tag # result[i + 1].tag

====
